---- MODULE Spec2Model ----
(***************************************************************************)
(* Role-gated student records application (src/app.py).                    *)
(*                                                                         *)
(* State: the Flask session of each browser client, the Record Store tree  *)
(* rooted at Classes/, a logical clock standing for time.time(), and the   *)
(* outcome of the most recent request (response, store reads and writes).  *)
(* The session is Flask's default, a signed cookie the client holds: a     *)
(* request works on the session it arrived with, and a response of a       *)
(* request that wrote to its session hands that session back to the        *)
(* client.  signedOut records the clients that never signed in or have     *)
(* signed out and not signed in since.                                     *)
(* One action per route and method, but two for each handler that calls    *)
(* the Record Store: its worker thread waits in the store call while other *)
(* requests are served.  POST /add_student builds the payload and then     *)
(* waits in set(): the requests between the two are in pending.  GET       *)
(* /teacher and GET /counselor test the session and then wait in get():    *)
(* the requests between the two are in reading.  POST /login waits in the  *)
(* call of the Identity Gateway and then in get() of the User Directory    *)
(* before it writes the session: the sign-ins in flight are in signing.    *)
(* For the questions that need them there are also the chain of routes a   *)
(* browser has visited by following redirects (chain), and a name with the *)
(* keys derived from it (keyIn, keyOut).                                   *)
(*                                                                         *)
(* Python strings are sequences of characters, so that strip(), isalnum()  *)
(* and the splitting of slash-delimited paths are computed.  A character   *)
(* up to U+00FF is a one-character string, a character beyond it the       *)
(* string that names its code point ("U+0141").                            *)
(* flash() messages are recorded with the response; they are not part of   *)
(* the six identity fields of the session modelled here.                   *)
(*                                                                         *)
(* The Record Store follows the Realtime Database: db.reference(path)      *)
(* refuses the characters [ ] . ? # $ and drops empty path segments, set() *)
(* replaces the whole node, get() returns the subtree.  The User Directory *)
(* (users/{uid}) is read-only to the application and fixed here.  Init     *)
(* starts one browser client; the handlers are written for any number.     *)
(***************************************************************************)
EXTENDS Integers, Sequences, FiniteSets, TLC

VARIABLES session, signedOut, store, clock, last, pending, reading, signing,
          chain, keyIn, keyOut

vars ==
    <<session, signedOut, store, clock, last, pending, reading, signing,
      chain, keyIn, keyOut>>

\* the state outside the requests that run to completion in one step
extra == <<pending, reading, signing, chain, keyIn, keyOut>>

----------------------------------------------------------------------------
(* Bounds *)

\* Every POST /add_student that reads the time for its payload advances
\* the clock by one, up to MaxClock: a behaviour that starts at 1 has at
\* most MaxClock - 1 writes, one that starts at MaxClock - 1 at most one.
MaxClock == 3

\* most GET requests that wait in the store's get() at the same time
MaxReading == 1

\* most POST /login requests that wait for the Identity Gateway or the User
\* Directory at the same time
MaxSigning == 1

----------------------------------------------------------------------------
(* Python values *)

\* Python's None: a sequence that is no string (its element has four letters).
None == <<"None">>

\* str(None), as an f-string formats it
sNone == <<"N", "o", "n", "e">>

sTeacher == <<"t", "e", "a", "c", "h", "e", "r">>

sCounselor == <<"c", "o", "u", "n", "s", "e", "l", "o", "r">>

sAdmin == <<"a", "d", "m", "i", "n">>

sClasses == <<"C", "l", "a", "s", "s", "e", "s">>

sUsers == <<"u", "s", "e", "r", "s">>

\* truth value of a Python str-or-None
Truthy(v) == v # None /\ v # <<>>

\* f"{v}"
Fmt(v) == IF v = None THEN sNone ELSE v

\* the characters with str.isspace(): the ASCII ones (tab, line feed,
\* vertical tab, form feed, carriage return, the separators 1C..1F, the
\* blank), next line (85), the no-break space (A0), and the Unicode spaces
\* beyond U+00FF, which are written by their code point
WhiteSpace ==
    {"\t", "\n", "", "\f", "\r", "", "", "",
     "", " ", "", " ",
     "U+1680", "U+2000", "U+2001", "U+2002", "U+2003", "U+2004",
     "U+2005", "U+2006", "U+2007", "U+2008", "U+2009", "U+200A",
     "U+2028", "U+2029", "U+202F", "U+205F", "U+3000"}

\* str.isspace() of one character: what str.strip() removes
IsSpace(ch) == ch \in WhiteSpace

RECURSIVE LStrip(_)
LStrip(s) ==
    IF s = <<>> THEN s
    ELSE IF IsSpace(Head(s)) THEN LStrip(Tail(s)) ELSE s

RECURSIVE RStrip(_)
RStrip(s) ==
    IF s = <<>> THEN s
    ELSE IF IsSpace(s[Len(s)]) THEN RStrip(SubSeq(s, 1, Len(s) - 1)) ELSE s

\* str.strip()
Strip(s) == RStrip(LStrip(s))

Letters ==
    {"a", "b", "c", "d", "e", "f", "g", "h", "i", "j", "k", "l", "m",
     "n", "o", "p", "q", "r", "s", "t", "u", "v", "w", "x", "y", "z",
     "A", "B", "C", "D", "E", "F", "G", "H", "I", "J", "K", "L", "M",
     "N", "O", "P", "Q", "R", "S", "T", "U", "V", "W", "X", "Y", "Z"}

Digits == {"0", "1", "2", "3", "4", "5", "6", "7", "8", "9"}

\* the characters from U+0080 to U+00FF with str.isalnum(): letters,
\* superscript digits and fractions
Latin1Alnum ==
    {"ª", "²", "³", "µ", "¹", "º", "¼", "½", "¾", "À", "Á", "Â",
     "Ã", "Ä", "Å", "Æ", "Ç", "È", "É", "Ê", "Ë", "Ì", "Í", "Î",
     "Ï", "Ð", "Ñ", "Ò", "Ó", "Ô", "Õ", "Ö", "Ø", "Ù", "Ú", "Û",
     "Ü", "Ý", "Þ", "ß", "à", "á", "â", "ã", "ä", "å", "æ", "ç",
     "è", "é", "ê", "ë", "ì", "í", "î", "ï", "ð", "ñ", "ò", "ó",
     "ô", "õ", "ö", "ø", "ù", "ú", "û", "ü", "ý", "þ", "ÿ"}

\* A character up to U+00FF is the one-character string; a character beyond
\* is the string that names its code point, "U+0141" for the letter L with
\* stroke.
HexDigit(d) ==
    <<"0", "1", "2", "3", "4", "5", "6", "7",
      "8", "9", "A", "B", "C", "D", "E", "F">>[d + 1]

RECURSIVE Hex(_)
Hex(n) == IF n < 16 THEN HexDigit(n) ELSE Hex(n \div 16) \o HexDigit(n % 16)

\* the name of the character with code point n, n > 255
CodePoint(n) == "U+" \o (IF n < 4096 THEN "0" ELSE "") \o Hex(n)

\* the code points beyond U+00FF with str.isalnum(), as ranges from..to:
\* the letters and numerals of every script (Unicode 14, Python 3.11)
FarAlnumRanges ==
    {<<256, 705>>, <<710, 721>>, <<736, 740>>, <<748, 748>>,
     <<750, 750>>, <<880, 884>>, <<886, 887>>, <<890, 893>>,
     <<895, 895>>, <<902, 902>>, <<904, 906>>, <<908, 908>>,
     <<910, 929>>, <<931, 1013>>, <<1015, 1153>>, <<1162, 1327>>,
     <<1329, 1366>>, <<1369, 1369>>, <<1376, 1416>>, <<1488, 1514>>,
     <<1519, 1522>>, <<1568, 1610>>, <<1632, 1641>>, <<1646, 1647>>,
     <<1649, 1747>>, <<1749, 1749>>, <<1765, 1766>>, <<1774, 1788>>,
     <<1791, 1791>>, <<1808, 1808>>, <<1810, 1839>>, <<1869, 1957>>,
     <<1969, 1969>>, <<1984, 2026>>, <<2036, 2037>>, <<2042, 2042>>,
     <<2048, 2069>>, <<2074, 2074>>, <<2084, 2084>>, <<2088, 2088>>,
     <<2112, 2136>>, <<2144, 2154>>, <<2160, 2183>>, <<2185, 2190>>,
     <<2208, 2249>>, <<2308, 2361>>, <<2365, 2365>>, <<2384, 2384>>,
     <<2392, 2401>>, <<2406, 2415>>, <<2417, 2432>>, <<2437, 2444>>,
     <<2447, 2448>>, <<2451, 2472>>, <<2474, 2480>>, <<2482, 2482>>,
     <<2486, 2489>>, <<2493, 2493>>, <<2510, 2510>>, <<2524, 2525>>,
     <<2527, 2529>>, <<2534, 2545>>, <<2548, 2553>>, <<2556, 2556>>,
     <<2565, 2570>>, <<2575, 2576>>, <<2579, 2600>>, <<2602, 2608>>,
     <<2610, 2611>>, <<2613, 2614>>, <<2616, 2617>>, <<2649, 2652>>,
     <<2654, 2654>>, <<2662, 2671>>, <<2674, 2676>>, <<2693, 2701>>,
     <<2703, 2705>>, <<2707, 2728>>, <<2730, 2736>>, <<2738, 2739>>,
     <<2741, 2745>>, <<2749, 2749>>, <<2768, 2768>>, <<2784, 2785>>,
     <<2790, 2799>>, <<2809, 2809>>, <<2821, 2828>>, <<2831, 2832>>,
     <<2835, 2856>>, <<2858, 2864>>, <<2866, 2867>>, <<2869, 2873>>,
     <<2877, 2877>>, <<2908, 2909>>, <<2911, 2913>>, <<2918, 2927>>,
     <<2929, 2935>>, <<2947, 2947>>, <<2949, 2954>>, <<2958, 2960>>,
     <<2962, 2965>>, <<2969, 2970>>, <<2972, 2972>>, <<2974, 2975>>,
     <<2979, 2980>>, <<2984, 2986>>, <<2990, 3001>>, <<3024, 3024>>,
     <<3046, 3058>>, <<3077, 3084>>, <<3086, 3088>>, <<3090, 3112>>,
     <<3114, 3129>>, <<3133, 3133>>, <<3160, 3162>>, <<3165, 3165>>,
     <<3168, 3169>>, <<3174, 3183>>, <<3192, 3198>>, <<3200, 3200>>,
     <<3205, 3212>>, <<3214, 3216>>, <<3218, 3240>>, <<3242, 3251>>,
     <<3253, 3257>>, <<3261, 3261>>, <<3293, 3294>>, <<3296, 3297>>,
     <<3302, 3311>>, <<3313, 3314>>, <<3332, 3340>>, <<3342, 3344>>,
     <<3346, 3386>>, <<3389, 3389>>, <<3406, 3406>>, <<3412, 3414>>,
     <<3416, 3425>>, <<3430, 3448>>, <<3450, 3455>>, <<3461, 3478>>,
     <<3482, 3505>>, <<3507, 3515>>, <<3517, 3517>>, <<3520, 3526>>,
     <<3558, 3567>>, <<3585, 3632>>, <<3634, 3635>>, <<3648, 3654>>,
     <<3664, 3673>>, <<3713, 3714>>, <<3716, 3716>>, <<3718, 3722>>,
     <<3724, 3747>>, <<3749, 3749>>, <<3751, 3760>>, <<3762, 3763>>,
     <<3773, 3773>>, <<3776, 3780>>, <<3782, 3782>>, <<3792, 3801>>,
     <<3804, 3807>>, <<3840, 3840>>, <<3872, 3891>>, <<3904, 3911>>,
     <<3913, 3948>>, <<3976, 3980>>, <<4096, 4138>>, <<4159, 4169>>,
     <<4176, 4181>>, <<4186, 4189>>, <<4193, 4193>>, <<4197, 4198>>,
     <<4206, 4208>>, <<4213, 4225>>, <<4238, 4238>>, <<4240, 4249>>,
     <<4256, 4293>>, <<4295, 4295>>, <<4301, 4301>>, <<4304, 4346>>,
     <<4348, 4680>>, <<4682, 4685>>, <<4688, 4694>>, <<4696, 4696>>,
     <<4698, 4701>>, <<4704, 4744>>, <<4746, 4749>>, <<4752, 4784>>,
     <<4786, 4789>>, <<4792, 4798>>, <<4800, 4800>>, <<4802, 4805>>,
     <<4808, 4822>>, <<4824, 4880>>, <<4882, 4885>>, <<4888, 4954>>,
     <<4969, 4988>>, <<4992, 5007>>, <<5024, 5109>>, <<5112, 5117>>,
     <<5121, 5740>>, <<5743, 5759>>, <<5761, 5786>>, <<5792, 5866>>,
     <<5870, 5880>>, <<5888, 5905>>, <<5919, 5937>>, <<5952, 5969>>,
     <<5984, 5996>>, <<5998, 6000>>, <<6016, 6067>>, <<6103, 6103>>,
     <<6108, 6108>>, <<6112, 6121>>, <<6128, 6137>>, <<6160, 6169>>,
     <<6176, 6264>>, <<6272, 6276>>, <<6279, 6312>>, <<6314, 6314>>,
     <<6320, 6389>>, <<6400, 6430>>, <<6470, 6509>>, <<6512, 6516>>,
     <<6528, 6571>>, <<6576, 6601>>, <<6608, 6618>>, <<6656, 6678>>,
     <<6688, 6740>>, <<6784, 6793>>, <<6800, 6809>>, <<6823, 6823>>,
     <<6917, 6963>>, <<6981, 6988>>, <<6992, 7001>>, <<7043, 7072>>,
     <<7086, 7141>>, <<7168, 7203>>, <<7232, 7241>>, <<7245, 7293>>,
     <<7296, 7304>>, <<7312, 7354>>, <<7357, 7359>>, <<7401, 7404>>,
     <<7406, 7411>>, <<7413, 7414>>, <<7418, 7418>>, <<7424, 7615>>,
     <<7680, 7957>>, <<7960, 7965>>, <<7968, 8005>>, <<8008, 8013>>,
     <<8016, 8023>>, <<8025, 8025>>, <<8027, 8027>>, <<8029, 8029>>,
     <<8031, 8061>>, <<8064, 8116>>, <<8118, 8124>>, <<8126, 8126>>,
     <<8130, 8132>>, <<8134, 8140>>, <<8144, 8147>>, <<8150, 8155>>,
     <<8160, 8172>>, <<8178, 8180>>, <<8182, 8188>>, <<8304, 8305>>,
     <<8308, 8313>>, <<8319, 8329>>, <<8336, 8348>>, <<8450, 8450>>,
     <<8455, 8455>>, <<8458, 8467>>, <<8469, 8469>>, <<8473, 8477>>,
     <<8484, 8484>>, <<8486, 8486>>, <<8488, 8488>>, <<8490, 8493>>,
     <<8495, 8505>>, <<8508, 8511>>, <<8517, 8521>>, <<8526, 8526>>,
     <<8528, 8585>>, <<9312, 9371>>, <<9450, 9471>>, <<10102, 10131>>,
     <<11264, 11492>>, <<11499, 11502>>, <<11506, 11507>>, <<11517, 11517>>,
     <<11520, 11557>>, <<11559, 11559>>, <<11565, 11565>>, <<11568, 11623>>,
     <<11631, 11631>>, <<11648, 11670>>, <<11680, 11686>>, <<11688, 11694>>,
     <<11696, 11702>>, <<11704, 11710>>, <<11712, 11718>>, <<11720, 11726>>,
     <<11728, 11734>>, <<11736, 11742>>, <<11823, 11823>>, <<12293, 12295>>,
     <<12321, 12329>>, <<12337, 12341>>, <<12344, 12348>>, <<12353, 12438>>,
     <<12445, 12447>>, <<12449, 12538>>, <<12540, 12543>>, <<12549, 12591>>,
     <<12593, 12686>>, <<12690, 12693>>, <<12704, 12735>>, <<12784, 12799>>,
     <<12832, 12841>>, <<12872, 12879>>, <<12881, 12895>>, <<12928, 12937>>,
     <<12977, 12991>>, <<13312, 19903>>, <<19968, 42124>>, <<42192, 42237>>,
     <<42240, 42508>>, <<42512, 42539>>, <<42560, 42606>>, <<42623, 42653>>,
     <<42656, 42735>>, <<42775, 42783>>, <<42786, 42888>>, <<42891, 42954>>,
     <<42960, 42961>>, <<42963, 42963>>, <<42965, 42969>>, <<42994, 43009>>,
     <<43011, 43013>>, <<43015, 43018>>, <<43020, 43042>>, <<43056, 43061>>,
     <<43072, 43123>>, <<43138, 43187>>, <<43216, 43225>>, <<43250, 43255>>,
     <<43259, 43259>>, <<43261, 43262>>, <<43264, 43301>>, <<43312, 43334>>,
     <<43360, 43388>>, <<43396, 43442>>, <<43471, 43481>>, <<43488, 43492>>,
     <<43494, 43518>>, <<43520, 43560>>, <<43584, 43586>>, <<43588, 43595>>,
     <<43600, 43609>>, <<43616, 43638>>, <<43642, 43642>>, <<43646, 43695>>,
     <<43697, 43697>>, <<43701, 43702>>, <<43705, 43709>>, <<43712, 43712>>,
     <<43714, 43714>>, <<43739, 43741>>, <<43744, 43754>>, <<43762, 43764>>,
     <<43777, 43782>>, <<43785, 43790>>, <<43793, 43798>>, <<43808, 43814>>,
     <<43816, 43822>>, <<43824, 43866>>, <<43868, 43881>>, <<43888, 44002>>,
     <<44016, 44025>>, <<44032, 55203>>, <<55216, 55238>>, <<55243, 55291>>,
     <<63744, 64109>>, <<64112, 64217>>, <<64256, 64262>>, <<64275, 64279>>,
     <<64285, 64285>>, <<64287, 64296>>, <<64298, 64310>>, <<64312, 64316>>,
     <<64318, 64318>>, <<64320, 64321>>, <<64323, 64324>>, <<64326, 64433>>,
     <<64467, 64829>>, <<64848, 64911>>, <<64914, 64967>>, <<65008, 65019>>,
     <<65136, 65140>>, <<65142, 65276>>, <<65296, 65305>>, <<65313, 65338>>,
     <<65345, 65370>>, <<65382, 65470>>, <<65474, 65479>>, <<65482, 65487>>,
     <<65490, 65495>>, <<65498, 65500>>, <<65536, 65547>>, <<65549, 65574>>,
     <<65576, 65594>>, <<65596, 65597>>, <<65599, 65613>>, <<65616, 65629>>,
     <<65664, 65786>>, <<65799, 65843>>, <<65856, 65912>>, <<65930, 65931>>,
     <<66176, 66204>>, <<66208, 66256>>, <<66273, 66299>>, <<66304, 66339>>,
     <<66349, 66378>>, <<66384, 66421>>, <<66432, 66461>>, <<66464, 66499>>,
     <<66504, 66511>>, <<66513, 66517>>, <<66560, 66717>>, <<66720, 66729>>,
     <<66736, 66771>>, <<66776, 66811>>, <<66816, 66855>>, <<66864, 66915>>,
     <<66928, 66938>>, <<66940, 66954>>, <<66956, 66962>>, <<66964, 66965>>,
     <<66967, 66977>>, <<66979, 66993>>, <<66995, 67001>>, <<67003, 67004>>,
     <<67072, 67382>>, <<67392, 67413>>, <<67424, 67431>>, <<67456, 67461>>,
     <<67463, 67504>>, <<67506, 67514>>, <<67584, 67589>>, <<67592, 67592>>,
     <<67594, 67637>>, <<67639, 67640>>, <<67644, 67644>>, <<67647, 67669>>,
     <<67672, 67702>>, <<67705, 67742>>, <<67751, 67759>>, <<67808, 67826>>,
     <<67828, 67829>>, <<67835, 67867>>, <<67872, 67897>>, <<67968, 68023>>,
     <<68028, 68047>>, <<68050, 68096>>, <<68112, 68115>>, <<68117, 68119>>,
     <<68121, 68149>>, <<68160, 68168>>, <<68192, 68222>>, <<68224, 68255>>,
     <<68288, 68295>>, <<68297, 68324>>, <<68331, 68335>>, <<68352, 68405>>,
     <<68416, 68437>>, <<68440, 68466>>, <<68472, 68497>>, <<68521, 68527>>,
     <<68608, 68680>>, <<68736, 68786>>, <<68800, 68850>>, <<68858, 68899>>,
     <<68912, 68921>>, <<69216, 69246>>, <<69248, 69289>>, <<69296, 69297>>,
     <<69376, 69415>>, <<69424, 69445>>, <<69457, 69460>>, <<69488, 69505>>,
     <<69552, 69579>>, <<69600, 69622>>, <<69635, 69687>>, <<69714, 69743>>,
     <<69745, 69746>>, <<69749, 69749>>, <<69763, 69807>>, <<69840, 69864>>,
     <<69872, 69881>>, <<69891, 69926>>, <<69942, 69951>>, <<69956, 69956>>,
     <<69959, 69959>>, <<69968, 70002>>, <<70006, 70006>>, <<70019, 70066>>,
     <<70081, 70084>>, <<70096, 70106>>, <<70108, 70108>>, <<70113, 70132>>,
     <<70144, 70161>>, <<70163, 70187>>, <<70272, 70278>>, <<70280, 70280>>,
     <<70282, 70285>>, <<70287, 70301>>, <<70303, 70312>>, <<70320, 70366>>,
     <<70384, 70393>>, <<70405, 70412>>, <<70415, 70416>>, <<70419, 70440>>,
     <<70442, 70448>>, <<70450, 70451>>, <<70453, 70457>>, <<70461, 70461>>,
     <<70480, 70480>>, <<70493, 70497>>, <<70656, 70708>>, <<70727, 70730>>,
     <<70736, 70745>>, <<70751, 70753>>, <<70784, 70831>>, <<70852, 70853>>,
     <<70855, 70855>>, <<70864, 70873>>, <<71040, 71086>>, <<71128, 71131>>,
     <<71168, 71215>>, <<71236, 71236>>, <<71248, 71257>>, <<71296, 71338>>,
     <<71352, 71352>>, <<71360, 71369>>, <<71424, 71450>>, <<71472, 71483>>,
     <<71488, 71494>>, <<71680, 71723>>, <<71840, 71922>>, <<71935, 71942>>,
     <<71945, 71945>>, <<71948, 71955>>, <<71957, 71958>>, <<71960, 71983>>,
     <<71999, 71999>>, <<72001, 72001>>, <<72016, 72025>>, <<72096, 72103>>,
     <<72106, 72144>>, <<72161, 72161>>, <<72163, 72163>>, <<72192, 72192>>,
     <<72203, 72242>>, <<72250, 72250>>, <<72272, 72272>>, <<72284, 72329>>,
     <<72349, 72349>>, <<72368, 72440>>, <<72704, 72712>>, <<72714, 72750>>,
     <<72768, 72768>>, <<72784, 72812>>, <<72818, 72847>>, <<72960, 72966>>,
     <<72968, 72969>>, <<72971, 73008>>, <<73030, 73030>>, <<73040, 73049>>,
     <<73056, 73061>>, <<73063, 73064>>, <<73066, 73097>>, <<73112, 73112>>,
     <<73120, 73129>>, <<73440, 73458>>, <<73648, 73648>>, <<73664, 73684>>,
     <<73728, 74649>>, <<74752, 74862>>, <<74880, 75075>>, <<77712, 77808>>,
     <<77824, 78894>>, <<82944, 83526>>, <<92160, 92728>>, <<92736, 92766>>,
     <<92768, 92777>>, <<92784, 92862>>, <<92864, 92873>>, <<92880, 92909>>,
     <<92928, 92975>>, <<92992, 92995>>, <<93008, 93017>>, <<93019, 93025>>,
     <<93027, 93047>>, <<93053, 93071>>, <<93760, 93846>>, <<93952, 94026>>,
     <<94032, 94032>>, <<94099, 94111>>, <<94176, 94177>>, <<94179, 94179>>,
     <<94208, 100343>>, <<100352, 101589>>, <<101632, 101640>>, <<110576, 110579>>,
     <<110581, 110587>>, <<110589, 110590>>, <<110592, 110882>>, <<110928, 110930>>,
     <<110948, 110951>>, <<110960, 111355>>, <<113664, 113770>>, <<113776, 113788>>,
     <<113792, 113800>>, <<113808, 113817>>, <<119520, 119539>>, <<119648, 119672>>,
     <<119808, 119892>>, <<119894, 119964>>, <<119966, 119967>>, <<119970, 119970>>,
     <<119973, 119974>>, <<119977, 119980>>, <<119982, 119993>>, <<119995, 119995>>,
     <<119997, 120003>>, <<120005, 120069>>, <<120071, 120074>>, <<120077, 120084>>,
     <<120086, 120092>>, <<120094, 120121>>, <<120123, 120126>>, <<120128, 120132>>,
     <<120134, 120134>>, <<120138, 120144>>, <<120146, 120485>>, <<120488, 120512>>,
     <<120514, 120538>>, <<120540, 120570>>, <<120572, 120596>>, <<120598, 120628>>,
     <<120630, 120654>>, <<120656, 120686>>, <<120688, 120712>>, <<120714, 120744>>,
     <<120746, 120770>>, <<120772, 120779>>, <<120782, 120831>>, <<122624, 122654>>,
     <<123136, 123180>>, <<123191, 123197>>, <<123200, 123209>>, <<123214, 123214>>,
     <<123536, 123565>>, <<123584, 123627>>, <<123632, 123641>>, <<124896, 124902>>,
     <<124904, 124907>>, <<124909, 124910>>, <<124912, 124926>>, <<124928, 125124>>,
     <<125127, 125135>>, <<125184, 125251>>, <<125259, 125259>>, <<125264, 125273>>,
     <<126065, 126123>>, <<126125, 126127>>, <<126129, 126132>>, <<126209, 126253>>,
     <<126255, 126269>>, <<126464, 126467>>, <<126469, 126495>>, <<126497, 126498>>,
     <<126500, 126500>>, <<126503, 126503>>, <<126505, 126514>>, <<126516, 126519>>,
     <<126521, 126521>>, <<126523, 126523>>, <<126530, 126530>>, <<126535, 126535>>,
     <<126537, 126537>>, <<126539, 126539>>, <<126541, 126543>>, <<126545, 126546>>,
     <<126548, 126548>>, <<126551, 126551>>, <<126553, 126553>>, <<126555, 126555>>,
     <<126557, 126557>>, <<126559, 126559>>, <<126561, 126562>>, <<126564, 126564>>,
     <<126567, 126570>>, <<126572, 126578>>, <<126580, 126583>>, <<126585, 126588>>,
     <<126590, 126590>>, <<126592, 126601>>, <<126603, 126619>>, <<126625, 126627>>,
     <<126629, 126633>>, <<126635, 126651>>, <<127232, 127244>>, <<130032, 130041>>,
     <<131072, 173791>>, <<173824, 177976>>, <<177984, 178205>>, <<178208, 183969>>,
     <<183984, 191456>>, <<194560, 195101>>, <<196608, 201546>>}

\* the characters beyond U+00FF with str.isalnum() (counted, so that the
\* set is kept sorted)
FarAlnum ==
    LET names == {CodePoint(n) :
                      n \in UNION {r[1]..r[2] : r \in FarAlnumRanges}}
    IN  IF Cardinality(names) > 0 THEN names ELSE {}

\* str.isalnum() of one character
IsAlnum(ch) ==
    \/ ch \in Letters \cup Digits \cup Latin1Alnum
    \/ ch \in FarAlnum

\* a sanitizer that puts a blank where student_key_from_name puts "_"
KeyCharBlank(ch) == IF IsAlnum(ch) THEN ch ELSE " "

\* the character student_key_from_name puts for ch
KeyChar(ch) == IF IsAlnum(ch) THEN ch ELSE "_"

student_key_from_name(name) ==
    LET s == Strip(name)
    IN  [i \in 1..Len(s) |-> KeyChar(s[i])]

----------------------------------------------------------------------------
(* Record Store: a tree, held as the map from the path of each leaf to its *)
(* value.  A path is a sequence of segments, a segment a string.           *)

EmptyTree == [p \in {} |-> None]

IsPrefix(p, q) == Len(p) <= Len(q) /\ SubSeq(q, 1, Len(p)) = p

\* str.split("/")
RECURSIVE Split(_)
Split(s) ==
    IF \A i \in 1..Len(s) : s[i] # "/" THEN <<s>>
    ELSE LET i == CHOOSE k \in 1..Len(s) :
                      s[k] = "/" /\ \A j \in 1..(k - 1) : s[j] # "/"
         IN  <<SubSeq(s, 1, i - 1)>> \o Split(SubSeq(s, i + 1, Len(s)))

\* characters db.reference() refuses in a path
InvalidPathChars == {"[", "]", ".", "?", "#", "$"}

PathIsValid(path) == \A i \in 1..Len(path) : path[i] \notin InvalidPathChars

\* the segments db.reference(path) addresses: empty segments are dropped
ParsePath(path) == SelectSeq(Split(path), LAMBDA seg : seg # <<>>)

\* reference(p).get(): the subtree at p, as the map from relative leaf path
\* to value; the empty map when nothing is stored there
Get(tree, p) ==
    LET rel == {SubSeq(q, Len(p) + 1, Len(q)) :
                    q \in {x \in DOMAIN tree : IsPrefix(p, x)}}
    IN  [r \in rel |-> tree[p \o r]]

\* the path segment of a payload field
FieldSeg(f) ==
    CASE f = "name" -> <<"n", "a", "m", "e">>
      [] f = "specialNeeds" ->
            <<"s", "p", "e", "c", "i", "a", "l", "N", "e", "e", "d", "s">>
      [] f = "progress" -> <<"p", "r", "o", "g", "r", "e", "s", "s">>
      [] f = "accommodations" ->
            <<"a", "c", "c", "o", "m", "m", "o", "d", "a", "t", "i", "o", "n", "s">>
      [] f = "notes" -> <<"n", "o", "t", "e", "s">>
      [] f = "createdBy" -> <<"c", "r", "e", "a", "t", "e", "d", "B", "y">>
      [] f = "lastUpdated" ->
            <<"l", "a", "s", "t", "U", "p", "d", "a", "t", "e", "d">>

PayloadFields ==
    {"name", "specialNeeds", "progress", "accommodations", "notes",
     "createdBy", "lastUpdated"}

\* a set() that leaves the fields already stored at p as they are
SetKeepsExisting(tree, p, payload) ==
    LET kept == {q \in DOMAIN tree : ~IsPrefix(p, q) /\ ~IsPrefix(q, p)}
        new  == {p \o <<FieldSeg(f)>> : f \in PayloadFields}
        fieldOf(q) == CHOOSE f \in PayloadFields : q = p \o <<FieldSeg(f)>>
    IN  [q \in kept \cup new |->
            IF q \in DOMAIN tree THEN tree[q] ELSE payload[fieldOf(q)]]

\* reference(p).set(payload): full replace of the node at p.  Everything
\* stored at or below p goes, a leaf that was an ancestor of p becomes an
\* inner node, and the payload's fields become the children of p.
Set(tree, p, payload) ==
    LET kept == {q \in DOMAIN tree : ~IsPrefix(p, q) /\ ~IsPrefix(q, p)}
        new  == {p \o <<FieldSeg(f)>> : f \in PayloadFields}
        fieldOf(q) == CHOOSE f \in PayloadFields : q = p \o <<FieldSeg(f)>>
    IN  [q \in kept \cup new |->
            IF q \in new THEN payload[fieldOf(q)] ELSE tree[q]]

----------------------------------------------------------------------------
(* External collaborators and the bounded inputs *)

\* user identifiers the Identity Gateway hands out
uT == <<"u", "T">>

uC == <<"u", "C">>

uN == <<"u", "N">>

uA == <<"u", "A">>

uX == <<"u", "X">>

\* the accounts the Identity Gateway knows
Accounts ==
    {[email |-> <<"t">>, password |-> <<"p">>, uid |-> uT],
     [email |-> <<"c">>, password |-> <<"p">>, uid |-> uC],
     [email |-> <<"n">>, password |-> <<"p">>, uid |-> uN],
     [email |-> <<"a">>, password |-> <<"p">>, uid |-> uA],
     [email |-> <<"x">>, password |-> <<"p">>, uid |-> uX]}

\* the sign-in forms a client submits: the five accounts, one account with
\* padding, a wrong password and a blank password
Credentials ==
    {[email |-> a.email, password |-> a.password] : a \in Accounts}
    \cup {[email |-> <<" ", "c", "\f">>, password |-> <<"p", " ">>],
          [email |-> <<"t">>, password |-> <<"q">>],
          [email |-> <<"t">>, password |-> <<" ">>]}

\* signInWithPassword: 200 with the account's identifier and fresh tokens,
\* or an error document
firebase_sign_in(email, password) ==
    IF \E a \in Accounts : a.email = email /\ a.password = password
    THEN LET acct == CHOOSE x \in Accounts :
                         x.email = email /\ x.password = password
         IN  [localId |-> acct.uid,
              idToken |-> <<"i", "d">> \o acct.uid,
              refreshToken |-> <<"r", "f">> \o acct.uid]
    ELSE [error |-> <<"I", "N", "V", "A", "L", "I", "D">>]

\* the User Directory, users/{uid}: a teacher of 5/A, a counselor without
\* assignment, an entry that has no role, an entry with a third role; uX
\* has no entry
UserDirectory ==
    (uT :> [role |-> sTeacher, assignedClass |-> <<"5">>,
            assignedSection |-> <<"A">>])
    @@ (uC :> [role |-> sCounselor])
    @@ (uN :> [assignedClass |-> <<"6">>])
    @@ (uA :> [role |-> sAdmin, assignedClass |-> <<"5">>,
               assignedSection |-> <<"B">>])

\* Python's {}
EmptyDict == [k \in {} |-> None]

\* db.reference(f"users/{uid}").get() or {}
get_user_metadata(uid) ==
    IF uid \in DOMAIN UserDirectory THEN UserDirectory[uid] ELSE EmptyDict

\* dict.get(key, default)
DictGet(d, key, default) == IF key \in DOMAIN d THEN d[key] ELSE default

\* the four free-text fields of the student form, in two fillings
Details ==
    {[specialNeeds |-> <<"s", "1">>, progress |-> <<"p", "1">>,
      accommodations |-> <<"a", "1">>, notes |-> <<"n", "1">>],
     [specialNeeds |-> <<" ", "s", "2">>, progress |-> <<>>,
      accommodations |-> <<"a", "2", " ">>, notes |-> <<"n", "2">>]}

DetailsA == CHOOSE d \in Details : d.progress # <<>>

DetailsB == CHOOSE d \in Details : d.progress = <<>>

\* the add_student forms a client submits: a student of 5/A, a student of
\* 5/B whose padded name has the same derived key, and a form with a blank
\* name and a blank class
Forms ==
    {[name |-> <<"a", " ", "b">>, class |-> <<"5">>, section |-> <<"A">>,
      details |-> DetailsA],
     [name |-> <<" ", "a", "_", "b", " ">>, class |-> <<"5">>,
      section |-> <<"B">>, details |-> DetailsB],
     [name |-> <<" ">>, class |-> <<" ">>, section |-> <<"B">>,
      details |-> DetailsA]}

----------------------------------------------------------------------------
(* Session *)

SessionKeys ==
    {"uid", "idToken", "refreshToken", "role", "assignedClass",
     "assignedSection"}

\* a session without any key: session.get(k) is None for every k
EmptySession == [k \in SessionKeys |-> None]

\* a session.update that keeps the keys the session already holds
SessionUpdateKeepsOld(s, d) ==
    [k \in SessionKeys |-> IF k \in DOMAIN d /\ s[k] = None THEN d[k] ELSE s[k]]

\* session.update(d)
SessionUpdate(s, d) == [k \in SessionKeys |-> IF k \in DOMAIN d THEN d[k] ELSE s[k]]

\* the dict login() stores on success
SessionFields(res, meta) ==
    [uid |-> res.localId,
     idToken |-> res.idToken,
     refreshToken |-> DictGet(res, "refreshToken", None),
     role |-> DictGet(meta, "role", None),
     assignedClass |-> DictGet(meta, "assignedClass", <<>>),
     assignedSection |-> DictGet(meta, "assignedSection", <<>>)]

\* the test of the login_required wrapper
LoginRequired(s) == Truthy(s["uid"])

\* the test of index()
IndexSignedIn(s) == Truthy(s["idToken"]) /\ Truthy(s["uid"])

----------------------------------------------------------------------------
(* Responses *)

NoInput == [none |-> TRUE]

\* what the last request did: who asked what, the response (a redirect to
\* an endpoint, a rendered template, or an unhandled exception), the
\* flashed message (its fixed text), the data handed to the template, the
\* store paths read and written, the client's session before it, and
\* (set by add_student) what the store held at the written path before.
Outcome(c, method, route, input, kind, target, flash, data, reads, writes) ==
    [client |-> c, method |-> method, route |-> route, input |-> input,
     kind |-> kind, target |-> target, flash |-> flash, data |-> data,
     reads |-> reads, writes |-> writes, before |-> session[c],
     prior |-> EmptyTree]

NoRequest ==
    [client |-> "none", method |-> "none", route |-> "none",
     input |-> NoInput, kind |-> "none", target |-> "none",
     flash |-> "none", data |-> EmptyTree, reads |-> {}, writes |-> {},
     before |-> EmptySession, prior |-> EmptyTree]

\* the clients of sessions ss that hold no sign-in
NotSignedIn(ss) == {c \in DOMAIN ss : ss[c] = EmptySession}

\* the browser clients: each has a session of its own
Clients == DOMAIN session

\* no add_student request in flight
NoPending == {}

\* one browser client, not signed in, nothing stored, and time left for
\* one add_student request
Init ==
    /\ session = [c \in {"c1"} |-> EmptySession]
    /\ signedOut = NotSignedIn(session)
    /\ store = EmptyTree
    /\ clock = MaxClock - 1
    /\ last = NoRequest
    /\ pending = NoPending
    /\ reading = {}
    /\ signing = {}
    /\ chain = <<>>
    /\ keyIn = <<>>
    /\ keyOut = <<>>

----------------------------------------------------------------------------
(* Handlers *)

\* GET /
Index(c) ==
    /\ last' = Outcome(c, "GET", "index", NoInput, "redirect",
                  IF IndexSignedIn(session[c]) THEN "dashboard" ELSE "login",
                  "none", EmptyTree, {}, {})
    /\ UNCHANGED <<session, signedOut, store, clock>>

\* GET /login
LoginGet(c) ==
    /\ last' = Outcome(c, "GET", "login", NoInput, "render", "login.html",
                       "none", EmptyTree, {}, {})
    /\ UNCHANGED <<session, signedOut, store, clock>>

\* What POST /login decides from the form: the step it ends at
\* ("blank", "error", "nometa" or "ok"), the directory path it read, and
\* the fields it stores in the session.
LoginResult(cred) ==
    LET email    == Strip(cred.email)
        password == Strip(cred.password)
        res      == firebase_sign_in(email, password)
        meta     == get_user_metadata(res.localId)
    IN  IF ~Truthy(email) \/ ~Truthy(password)
        THEN [step |-> "blank", reads |-> {}, fields |-> EmptyDict]
        ELSE IF "error" \in DOMAIN res
        THEN [step |-> "error", reads |-> {}, fields |-> EmptyDict]
        ELSE IF DOMAIN meta = {}
        THEN [step |-> "nometa", reads |-> {<<sUsers, res.localId>>},
              fields |-> EmptyDict]
        ELSE [step |-> "ok", reads |-> {<<sUsers, res.localId>>},
              fields |-> SessionFields(res, meta)]

\* the session POST /login leaves behind
LoginSession(s, r) ==
    IF r.step = "ok" THEN SessionUpdate(s, r.fields) ELSE s

\* what POST /login decides from each of the sign-in forms
LoginResults == [cred \in Credentials |-> LoginResult(cred)]

\* The answer of POST /login to a request that arrived with the session
\* `before` and ended as r says.  Every way out of login() calls flash(),
\* which writes to the request's session, so the answer hands that session
\* (updated, after a sign-in) to the client, whatever the client's session
\* has become while the request waited.
LoginAnswer(c, cred, before, r) ==
    /\ session' = [session EXCEPT ![c] = LoginSession(before, r)]
    /\ last' = [Outcome(c, "POST", "login", cred, "redirect",
                    IF r.step = "ok" THEN "dashboard" ELSE "login",
                    CASE r.step = "blank" -> "Enter email and password"
                      [] r.step = "error" -> "Login failed"
                      [] r.step = "nometa" -> "User metadata not found"
                      [] r.step = "ok" -> "Signed in",
                    EmptyTree, r.reads, {})
                EXCEPT !.before = before]
    /\ signedOut' = IF r.step = "ok" THEN signedOut \ {c} ELSE signedOut
    /\ UNCHANGED <<store, clock>>

\* POST /login up to the call of the Identity Gateway: a form with a blank
\* field is answered at once, every other request waits in requests.post
\* while the server takes other requests, of this client too
LoginBegin(c, cred) ==
    LET r == LoginResults[cred]
    IN  IF r.step = "blank"
        THEN LoginAnswer(c, cred, session[c], r) /\ UNCHANGED signing
        ELSE /\ Cardinality(signing) < MaxSigning
             /\ signing' = signing \cup
                               {[client |-> c, cred |-> cred,
                                 before |-> session[c], stage |-> "gateway"]}
             /\ UNCHANGED <<session, signedOut, store, clock, last>>

\* requests.post of a POST /login in flight returns: a refused sign-in is
\* answered, an accepted one goes on to wait in get() of users/{uid}
LoginGateway(c) ==
    \E w \in signing :
        /\ w.client = c
        /\ w.stage = "gateway"
        /\ LET r == LoginResults[w.cred]
           IN  IF r.step = "error"
               THEN /\ LoginAnswer(c, w.cred, w.before, r)
                    /\ signing' = signing \ {w}
               ELSE /\ signing' = (signing \ {w})
                                      \cup {[w EXCEPT !.stage = "directory"]}
                    /\ UNCHANGED <<session, signedOut, store, clock, last>>

\* get() of users/{uid} of a POST /login in flight returns, and the request
\* is answered: without an entry no sign-in, with one session.update
LoginCommit(c) ==
    \E w \in signing :
        /\ w.client = c
        /\ w.stage = "directory"
        /\ LoginAnswer(c, w.cred, w.before, LoginResults[w.cred])
        /\ signing' = signing \ {w}

\* a logout that clears one session object shared by all clients
LogoutEverybody(c) ==
    /\ session' = [d \in Clients |-> EmptySession]
    /\ signedOut' = Clients
    /\ last' = Outcome(c, "GET", "logout", NoInput, "redirect", "login",
                       "Logged out", EmptyTree, {}, {})
    /\ UNCHANGED <<store, clock>>

\* GET /logout
Logout(c) ==
    /\ session' = [session EXCEPT ![c] = EmptySession]
    /\ signedOut' = signedOut \cup {c}
    /\ last' = Outcome(c, "GET", "logout", NoInput, "redirect", "login",
                       "Logged out", EmptyTree, {}, {})
    /\ UNCHANGED <<store, clock>>

\* the response of the login_required wrapper when it stops the request
Unauthenticated(c, method, route, input) ==
    /\ last' = Outcome(c, method, route, input, "redirect", "login",
                       "Please sign in", EmptyTree, {}, {})
    /\ UNCHANGED <<session, signedOut, store, clock>>

\* a dispatch that sends every non-teacher to the counselor view
DashboardTargetTeacherTest(s) ==
    IF s["role"] = sTeacher THEN "teacher_dashboard"
    ELSE "counselor_dashboard"

\* the endpoint dashboard() redirects to
DashboardTarget(s) ==
    IF s["role"] = sCounselor THEN "counselor_dashboard"
    ELSE "teacher_dashboard"

\* GET /dashboard
Dashboard(c) ==
    IF ~LoginRequired(session[c])
    THEN Unauthenticated(c, "GET", "dashboard", NoInput)
    ELSE /\ last' = Outcome(c, "GET", "dashboard", NoInput, "redirect",
                        DashboardTarget(session[c]), "none", EmptyTree,
                        {}, {})
         /\ UNCHANGED <<session, signedOut, store, clock>>

\* a teacher_dashboard() without its role test
TeacherAllowedAnyRole(s) == TRUE

\* the role test of teacher_dashboard()
TeacherAllowed(s) == s["role"] = sTeacher

\* the role test of counselor_dashboard()
CounselorAllowed(s) == s["role"] = sCounselor

\* a teacher_dashboard() that reads the whole class
TeacherPathWholeClass(s) == sClasses \o <<"/">> \o Fmt(s["assignedClass"])

\* the path teacher_dashboard() reads
TeacherPath(s) ==
    sClasses \o <<"/">> \o Fmt(s["assignedClass"]) \o <<"/">>
        \o Fmt(s["assignedSection"])

\* GET /teacher up to the store call: the wrapper's test, the role test
\* and the reference to the path.  The request then waits in get() while
\* the server takes other requests, of this client too.
TeacherDashboardBegin(c) ==
    LET s    == session[c]
        path == TeacherPath(s)
    IN  IF ~LoginRequired(s)
        THEN Unauthenticated(c, "GET", "teacher", NoInput)
             /\ UNCHANGED reading
        ELSE IF ~TeacherAllowed(s)
        THEN /\ last' = Outcome(c, "GET", "teacher", NoInput, "redirect",
                           "dashboard", "Not authorized for teacher dashboard",
                           EmptyTree, {}, {})
             /\ UNCHANGED <<session, signedOut, store, clock, reading>>
        ELSE IF ~PathIsValid(path)
        THEN /\ last' = Outcome(c, "GET", "teacher", NoInput, "error",
                           "ValueError", "none", EmptyTree, {}, {})
             /\ UNCHANGED <<session, signedOut, store, clock, reading>>
        ELSE /\ Cardinality(reading) < MaxReading
             /\ reading' = reading \cup
                               {[client |-> c, route |-> "teacher",
                                 path |-> ParsePath(path), before |-> s]}
             /\ UNCHANGED <<session, signedOut, store, clock, last>>

\* get() of a GET /teacher in flight returns, and the page is rendered
\* for the session the request arrived with; the handler writes nothing to
\* that session
TeacherDashboardCommit(c) ==
    \E r \in reading :
        /\ r.client = c
        /\ r.route = "teacher"
        /\ last' = [Outcome(c, "GET", "teacher", NoInput, "render",
                        "teacher_dashboard.html", "none",
                        Get(store, r.path), {r.path}, {})
                    EXCEPT !.before = r.before]
        /\ reading' = reading \ {r}
        /\ UNCHANGED <<session, signedOut, store, clock>>

\* GET /counselor up to the store call
CounselorDashboardBegin(c) ==
    LET s == session[c]
    IN  IF ~LoginRequired(s)
        THEN Unauthenticated(c, "GET", "counselor", NoInput)
             /\ UNCHANGED reading
        ELSE IF ~CounselorAllowed(s)
        THEN /\ last' = Outcome(c, "GET", "counselor", NoInput, "redirect",
                           "dashboard",
                           "Not authorized for counselor dashboard",
                           EmptyTree, {}, {})
             /\ UNCHANGED <<session, signedOut, store, clock, reading>>
        ELSE /\ Cardinality(reading) < MaxReading
             /\ reading' = reading \cup
                               {[client |-> c, route |-> "counselor",
                                 path |-> ParsePath(sClasses), before |-> s]}
             /\ UNCHANGED <<session, signedOut, store, clock, last>>

\* get() of a GET /counselor in flight returns, and the page is rendered
CounselorDashboardCommit(c) ==
    \E r \in reading :
        /\ r.client = c
        /\ r.route = "counselor"
        /\ last' = [Outcome(c, "GET", "counselor", NoInput, "render",
                        "counselor_dashboard.html", "none",
                        Get(store, r.path), {r.path}, {})
                    EXCEPT !.before = r.before]
        /\ reading' = reading \ {r}
        /\ UNCHANGED <<session, signedOut, store, clock>>

\* GET /add_student
AddStudentGet(c) ==
    IF ~LoginRequired(session[c])
    THEN Unauthenticated(c, "GET", "add_student", NoInput)
    ELSE /\ last' = Outcome(c, "GET", "add_student", NoInput, "render",
                        "add_edit_student.html", "none", EmptyTree, {}, {})
         /\ UNCHANGED <<session, signedOut, store, clock>>

\* an add_student() that trusts the form's class and section
TargetFromForm(s, form) ==
    [class |-> Strip(form.class), section |-> Strip(form.section)]

\* target_class and target_section of add_student()
Target(s, form) ==
    IF s["role"] = sTeacher
    THEN [class |-> s["assignedClass"], section |-> s["assignedSection"]]
    ELSE [class |-> Strip(form.class), section |-> Strip(form.section)]

\* the record add_student() writes
Payload(s, form, now) ==
    [name |-> Strip(form.name),
     specialNeeds |-> Strip(form.details.specialNeeds),
     progress |-> Strip(form.details.progress),
     accommodations |-> Strip(form.details.accommodations),
     notes |-> Strip(form.details.notes),
     createdBy |-> s["uid"],
     lastUpdated |-> now]

\* the path add_student() writes
StudentPath(s, form) ==
    sClasses \o <<"/">> \o Fmt(Target(s, form).class) \o <<"/">>
        \o Fmt(Target(s, form).section) \o <<"/">>
        \o student_key_from_name(Strip(form.name))

\* POST /add_student up to the store call: the wrapper's test, the target,
\* the payload with its timestamp, and the reference to the path.  The
\* request is then in flight: its worker thread waits in set() while the
\* server takes other requests, of this client too.
AddStudentBegin(c, form) ==
    LET s    == session[c]
        path == StudentPath(s, form)
    IN  /\ IF ~LoginRequired(s)
           THEN /\ last' = Outcome(c, "POST", "add_student", form,
                               "redirect", "login", "Please sign in",
                               EmptyTree, {}, {})
                /\ UNCHANGED <<pending, clock>>
           ELSE /\ clock < MaxClock
                /\ clock' = clock + 1
                /\ IF ~PathIsValid(path)
                   THEN /\ last' = Outcome(c, "POST", "add_student", form,
                                       "error", "ValueError", "none",
                                       EmptyTree, {}, {})
                        /\ UNCHANGED pending
                   ELSE /\ pending' = pending \cup
                                          {[client |-> c, form |-> form,
                                            path |-> ParsePath(path),
                                            payload |-> Payload(s, form, clock),
                                            before |-> s]}
                        /\ UNCHANGED last
        /\ UNCHANGED <<session, signedOut, store, reading, signing, chain,
                       keyIn, keyOut>>

\* The store call of a request in flight, and its response.  flash()
\* writes to the request's session, so the response hands the session the
\* request arrived with back to the client, whatever the client's session
\* has become while the request waited.
AddStudentCommit(c) ==
    \E r \in pending :
        /\ r.client = c
        /\ store' = Set(store, r.path, r.payload)
        /\ session' = [session EXCEPT ![c] = r.before]
        /\ last' = [Outcome(c, "POST", "add_student", r.form, "redirect",
                        "dashboard", "Student added", EmptyTree, {},
                        {r.path})
                    EXCEPT !.prior = Get(store, r.path),
                           !.before = r.before]
        /\ pending' = pending \ {r}
        /\ UNCHANGED <<signedOut, clock, reading, signing, chain, keyIn,
                       keyOut>>

\* extra without the GET requests that wait in the store
rest == <<pending, signing, chain, keyIn, keyOut>>

\* extra without the sign-ins in flight
others == <<pending, reading, chain, keyIn, keyOut>>

\* A request that calls neither the Record Store nor the Identity Gateway
\* runs to completion in one step.  GET /teacher, GET /counselor and POST
\* /add_student are two steps: up to the store call, and the store call's
\* return with the answer.  POST /login is up to three: up to the gateway
\* call, the gateway's return, and the directory's return with the answer.
Next ==
    \E c \in Clients :
        \/ Index(c) /\ UNCHANGED extra
        \/ LoginGet(c) /\ UNCHANGED extra
        \/ \E cred \in Credentials : LoginBegin(c, cred) /\ UNCHANGED others
        \/ LoginGateway(c) /\ UNCHANGED others
        \/ LoginCommit(c) /\ UNCHANGED others
        \/ Logout(c) /\ UNCHANGED extra
        \/ Dashboard(c) /\ UNCHANGED extra
        \/ TeacherDashboardBegin(c) /\ UNCHANGED rest
        \/ TeacherDashboardCommit(c) /\ UNCHANGED rest
        \/ CounselorDashboardBegin(c) /\ UNCHANGED rest
        \/ CounselorDashboardCommit(c) /\ UNCHANGED rest
        \/ AddStudentGet(c) /\ UNCHANGED extra
        \/ \E form \in Forms : AddStudentBegin(c, form)
        \/ AddStudentCommit(c)

Spec == Init /\ [][Next]_vars

----------------------------------------------------------------------------
(* student_key_from_name on its own *)

\* longest name drawn from KeyAlphabet
MaxNameLen == 3

\* a letter of each case, a letter beyond ASCII and one beyond U+00FF, a
\* digit, a blank, a vertical tab, the placeholder, punctuation
KeyAlphabet == {"a", "Z", "é", "U+0141", "7", " ", "", "_", "!", "."}

sJaneDoe == <<"J", "a", "n", "e", " ", "D", "o", "e", "!">>

\* the names given to student_key_from_name
KeyNames ==
    UNION {[1..n -> KeyAlphabet] : n \in 0..MaxNameLen} \cup {sJaneDoe}

\* a name, and no key derived yet
InitKey ==
    /\ keyIn \in KeyNames
    /\ keyOut = <<>>
    /\ session = [c \in {"c1"} |-> EmptySession]
    /\ signedOut = NotSignedIn(session)
    /\ store = EmptyTree
    /\ clock = 1
    /\ last = NoRequest
    /\ pending = NoPending
    /\ reading = {}
    /\ signing = {}
    /\ chain = <<>>

\* derive the key of the name, then the key of that key
Sanitize ==
    /\ Len(keyOut) < 2
    /\ keyOut' = Append(keyOut,
                    student_key_from_name(IF keyOut = <<>> THEN keyIn
                                          ELSE keyOut[Len(keyOut)]))
    /\ UNCHANGED <<session, signedOut, store, clock, last, pending,
                   reading, signing, chain, keyIn>>

SpecKey == InitKey /\ [][Sanitize]_vars

----------------------------------------------------------------------------
(* Two browser clients, and add_student requests alone *)

\* the sessions a browser client can hold: none, or what a POST /login
\* with one of the sign-in forms leaves in a fresh session
SessionsAfterLogin ==
    {LoginSession(EmptySession, LoginResult(cred)) : cred \in Credentials}

\* two browser clients with sessions from `sessions`, nothing stored, at
\* the time `now`
InitClients(sessions, now) ==
    /\ session \in [{"c1", "c2"} -> sessions]
    /\ signedOut = NotSignedIn(session)
    /\ store = EmptyTree
    /\ clock = now
    /\ last = NoRequest
    /\ pending = NoPending
    /\ reading = {}
    /\ signing = {}
    /\ chain = <<>>
    /\ keyIn = <<>>
    /\ keyOut = <<>>

\* add_student requests that overlap
NextRace ==
    \E c \in Clients :
        \/ \E form \in Forms : AddStudentBegin(c, form)
        \/ AddStudentCommit(c)

\* two clients, each signed in as some user or not at all
InitRace == InitClients(SessionsAfterLogin, 1)

SpecRace == InitRace /\ [][NextRace]_vars

----------------------------------------------------------------------------
(* Two browser clients that have signed in, and the routes of the records *)

\* add_student requests, the two views of the records, and logout
NextRecords ==
    \E c \in Clients :
        \/ \E form \in Forms : AddStudentBegin(c, form)
        \/ AddStudentCommit(c)
        \/ TeacherDashboardBegin(c) /\ UNCHANGED rest
        \/ TeacherDashboardCommit(c) /\ UNCHANGED rest
        \/ CounselorDashboardBegin(c) /\ UNCHANGED rest
        \/ CounselorDashboardCommit(c) /\ UNCHANGED rest
        \/ Logout(c) /\ UNCHANGED extra

\* two clients, each signed in as some user or not at all, with time for
\* two add_student requests
InitRecords == InitClients(SessionsAfterLogin, 1)

SpecRecords == InitRecords /\ [][NextRecords]_vars

----------------------------------------------------------------------------
(* A browser following redirects *)

\* longest chain of requests a browser is followed through
MaxHops == 4

\* the route of an endpoint named by url_for
RouteOf(endpoint) ==
    CASE endpoint = "dashboard" -> "dashboard"
      [] endpoint = "teacher_dashboard" -> "teacher"
      [] endpoint = "counselor_dashboard" -> "counselor"
      [] endpoint = "login" -> "login"

\* GET of a route, up to its answer or to its store call
GetRoute(c, route) ==
    \/ route = "dashboard" /\ Dashboard(c) /\ UNCHANGED reading
    \/ route = "teacher" /\ TeacherDashboardBegin(c)
    \/ route = "counselor" /\ CounselorDashboardBegin(c)
    \/ route = "login" /\ LoginGet(c) /\ UNCHANGED reading

\* the browser, waiting for no answer, asks for one of the three pages
StartAt(c, route) ==
    /\ reading = {}
    /\ GetRoute(c, route)
    /\ chain' = <<route>>
    /\ UNCHANGED <<pending, signing, keyIn, keyOut>>

\* the browser follows the redirect it was answered with
Follow(c) ==
    /\ reading = {}
    /\ chain # <<>>
    /\ Len(chain) < MaxHops
    /\ last.client = c
    /\ last.kind = "redirect"
    /\ GetRoute(c, RouteOf(last.target))
    /\ chain' = Append(chain, RouteOf(last.target))
    /\ UNCHANGED <<pending, signing, keyIn, keyOut>>

\* the page the browser waits for arrives
Arrive(c) ==
    /\ TeacherDashboardCommit(c) \/ CounselorDashboardCommit(c)
    /\ UNCHANGED <<pending, signing, chain, keyIn, keyOut>>

NextFollow ==
    \E c \in Clients :
        \/ \E route \in {"dashboard", "teacher", "counselor"} :
               StartAt(c, route)
        \/ Follow(c)
        \/ Arrive(c)

\* two clients, each signed in as some user or not at all
InitFollow == InitClients(SessionsAfterLogin, 1)

SpecFollow == InitFollow /\ [][NextFollow]_vars

----------------------------------------------------------------------------
(* Two browser clients and the routes that write a session *)

\* two clients, not signed in, with time left for one add_student request
InitTwo == InitClients({EmptySession}, MaxClock - 1)

\* the add_student form the two clients submit
FormsTwo == {form \in Forms : form.section = <<"A">>}

\* sign-in, logout and add_student, which write the session they arrived
\* with, and the dashboard dispatch
NextTwo ==
    \E c \in Clients :
        \/ \E cred \in Credentials : LoginBegin(c, cred) /\ UNCHANGED others
        \/ LoginGateway(c) /\ UNCHANGED others
        \/ LoginCommit(c) /\ UNCHANGED others
        \/ Logout(c) /\ UNCHANGED extra
        \/ Dashboard(c) /\ UNCHANGED extra
        \/ \E form \in FormsTwo : AddStudentBegin(c, form)
        \/ AddStudentCommit(c)

SpecTwo == InitTwo /\ [][NextTwo]_vars

----------------------------------------------------------------------------
(* Properties *)

\* a string that names one level of the tree
IsSegment(x) ==
    /\ Truthy(x)
    /\ \A i \in 1..Len(x) : x[i] # "/" /\ x[i] \notin InvalidPathChars

LastWas(method, route) == last.method = method /\ last.route = route

\* the routes behind login_required
GuardedRoutes == {"dashboard", "teacher", "counselor", "add_student"}

\* C1: a POST /add_student of a teacher session with assignment (C, S)
\* makes exactly one write, at a path under Classes/C/S, and leaves every
\* leaf of the store outside Classes/C/S as it was, whatever class and
\* section the form names.
C1_TeacherWritesOwnSection ==
    [][ ( /\ last'.method = "POST"
          /\ last'.route = "add_student"
          /\ LoginRequired(last'.before)
          /\ last'.before["role"] = sTeacher
          /\ IsSegment(last'.before["assignedClass"])
          /\ IsSegment(last'.before["assignedSection"]) )
        => LET own == <<sClasses, last'.before["assignedClass"],
                        last'.before["assignedSection"]>>
           IN  /\ Cardinality(last'.writes) = 1
               /\ \A w \in last'.writes : IsPrefix(own, w)
               /\ \A q \in DOMAIN store \cup DOMAIN store' :
                      ~IsPrefix(own, q)
                      => /\ q \in DOMAIN store
                         /\ q \in DOMAIN store'
                         /\ store'[q] = store[q] ]_vars

\* C1 witness: a teacher has posted a form that names another section, and
\* a record of another section is in the store.
C1_Witness ==
    /\ LastWas("POST", "add_student")
    /\ last.before["role"] = sTeacher
    /\ Strip(last.input.section) # last.before["assignedSection"]
    /\ last.writes # {}
    /\ \E q \in DOMAIN store : ~IsPrefix(<<sClasses, <<"5">>, <<"A">>>>, q)

\* C2: GET /teacher by a signed-in session that is no teacher, and GET
\* /counselor by a signed-in session that is no counselor, redirect, read
\* nothing from the store and hand no data to a template.  The session is
\* the one the request arrived with, also when the answer comes after a
\* wait in the store.
C2_WrongRoleRedirected ==
    /\ ( /\ LastWas("GET", "teacher")
         /\ LoginRequired(last.before)
         /\ last.before["role"] # sTeacher )
       => /\ last.kind = "redirect"
          /\ last.reads = {}
          /\ DOMAIN last.data = {}
    /\ ( /\ LastWas("GET", "counselor")
         /\ LoginRequired(last.before)
         /\ last.before["role"] # sCounselor )
       => /\ last.kind = "redirect"
          /\ last.reads = {}
          /\ DOMAIN last.data = {}

\* C2 witness: a counselor asked for /teacher while records are stored and
\* an earlier GET of a dashboard still waits in the store.
C2_Witness ==
    /\ LastWas("GET", "teacher")
    /\ last.before["role"] = sCounselor
    /\ DOMAIN store # {}
    /\ reading # {}

\* C3: while a client has no session (it never signed in, or it signed
\* out and has not signed in since), no request of it to a guarded route
\* gets past the sign-in test to wait in the store, and every request of
\* it to a guarded route that is answered at once is answered with a
\* redirect to login and reads and writes nothing; and /logout leaves the
\* client without a session.
C3_NoSessionRedirectsToLogin ==
    [][ /\ \A r \in (pending' \ pending) \cup (reading' \ reading) :
               r.client \notin signedOut
        /\ ( /\ pending' = pending
             /\ reading' = reading
             /\ last' # last
             /\ last'.client \in signedOut
             /\ last'.route \in GuardedRoutes )
           => /\ last'.kind = "redirect"
              /\ last'.target = "login"
              /\ last'.reads = {}
              /\ last'.writes = {}
              /\ store' = store
        /\ last'.route = "logout"
           => session'[last'.client] = EmptySession ]_vars

\* the last request was a POST /login that the Identity Gateway refused
LoginRefused ==
    /\ LastWas("POST", "login")
    /\ Truthy(Strip(last.input.email))
    /\ Truthy(Strip(last.input.password))
    /\ ~\E a \in Accounts : /\ a.email = Strip(last.input.email)
                            /\ a.password = Strip(last.input.password)

\* C4: the answer of a POST /login that the Identity Gateway refused sends
\* the client back to login and creates no session: the client's session
\* after the answer is what it was when the request arrived, and every
\* client's session is what it was when the answer came.
C4_RefusedSignInKeepsSession ==
    [][ ( /\ Cardinality(signing') < Cardinality(signing)
          /\ LoginRefused' )
        => /\ last'.target = "login"
           /\ session'[last'.client] = last'.before
           /\ session' = session ]_vars

\* the accounts whose directory entry names no role
Unprovisioned ==
    {a \in Accounts : "role" \notin DOMAIN get_user_metadata(a.uid)}

\* C5: a POST /login with the credentials of an account without a role in
\* the User Directory leaves the session as it was, and no signed-in
\* session has an absent role.
C5_UnprovisionedSignInFails ==
    /\ ( /\ LastWas("POST", "login")
         /\ \E a \in Unprovisioned :
                /\ a.email = Strip(last.input.email)
                /\ a.password = Strip(last.input.password) )
       => /\ last.target = "login"
          /\ session[last.client] = last.before
    /\ \A c \in Clients :
           LoginRequired(session[c]) => session[c]["role"] # None

\* C6: after a successful POST /login the session holds the identifier and
\* the tokens the Identity Gateway returned for the posted credentials, and
\* the role and assignment stored for that identifier in the User
\* Directory (a field the entry lacks: role None, assignment the empty
\* string); no field keeps the value of an earlier session.
C6_SignInStoresDirectoryValues ==
    ( /\ LastWas("POST", "login")
      /\ last.target = "dashboard" )
    => LET s == session[last.client]
       IN  \E a \in Accounts :
               /\ a.email = Strip(last.input.email)
               /\ a.password = Strip(last.input.password)
               /\ a.uid \in DOMAIN UserDirectory
               /\ s["uid"] = a.uid
               /\ s["idToken"] = firebase_sign_in(a.email, a.password).idToken
               /\ s["refreshToken"] =
                      firebase_sign_in(a.email, a.password).refreshToken
               /\ LET entry == UserDirectory[a.uid]
                  IN  /\ s["role"] = IF "role" \in DOMAIN entry
                                     THEN entry.role ELSE None
                      /\ s["assignedClass"] =
                             IF "assignedClass" \in DOMAIN entry
                             THEN entry.assignedClass ELSE <<>>
                      /\ s["assignedSection"] =
                             IF "assignedSection" \in DOMAIN entry
                             THEN entry.assignedSection ELSE <<>>

\* C6 witness: a client signed in as a teacher has signed in as the
\* counselor.
C6_Witness ==
    /\ LastWas("POST", "login")
    /\ last.target = "dashboard"
    /\ last.before["role"] = sTeacher
    /\ session[last.client]["uid"] = uC

\* C7: no request of a counselor session writes to the store.
C7_CounselorNeverWrites ==
    last.before["role"] = sCounselor => last.writes = {}

\* C8: a POST /add_student of a signed-in session that is no teacher, with
\* a class or a section that is empty after trimming, writes nothing.
C8_BlankTargetRejected ==
    ( /\ LastWas("POST", "add_student")
      /\ LoginRequired(last.before)
      /\ last.before["role"] # sTeacher
      /\ \/ Strip(last.input.class) = <<>>
         \/ Strip(last.input.section) = <<>> )
    => last.writes = {}

\* C9: GET /teacher of a teacher session with assignment (C, S) renders
\* the mapping stored at Classes/C/S when get() returns: every leaf stored
\* under that path, with its value, and nothing else.  The session is the
\* one the request arrived with.
C9_TeacherSeesOwnSection ==
    ( /\ LastWas("GET", "teacher")
      /\ LoginRequired(last.before)
      /\ last.before["role"] = sTeacher
      /\ IsSegment(last.before["assignedClass"])
      /\ IsSegment(last.before["assignedSection"]) )
    => LET C == last.before["assignedClass"]
           S == last.before["assignedSection"]
           inSection(q) ==
               Len(q) >= 3 /\ q[1] = sClasses /\ q[2] = C /\ q[3] = S
       IN  /\ last.kind = "render"
           /\ last.reads = {<<sClasses, C, S>>}
           /\ \A q \in DOMAIN store :
                  inSection(q)
                  => /\ SubSeq(q, 4, Len(q)) \in DOMAIN last.data
                     /\ last.data[SubSeq(q, 4, Len(q))] = store[q]
           /\ \A r \in DOMAIN last.data :
                  <<sClasses, C, S>> \o r \in DOMAIN store

\* C9 witness: a teacher was shown a non-empty section while another
\* section holds records too, and the page came after a wait in which the
\* client's session changed.
C9_Witness ==
    /\ LastWas("GET", "teacher")
    /\ last.kind = "render"
    /\ DOMAIN last.data # {}
    /\ session[last.client] # last.before
    /\ \E q \in DOMAIN store :
           q[2] # last.before["assignedClass"]
           \/ q[3] # last.before["assignedSection"]

\* C10: GET /dashboard of a signed-in session redirects to the counselor
\* view when the role is counselor and to the teacher view for every other
\* role, and neither reads nor writes the store.
C10_DashboardDispatch ==
    ( /\ LastWas("GET", "dashboard")
      /\ LoginRequired(last.before) )
    => /\ last.kind = "redirect"
       /\ last.target = IF last.before["role"] = sCounselor
                        THEN "counselor_dashboard" ELSE "teacher_dashboard"
       /\ last.reads = {}
       /\ last.writes = {}

\* C10 witness: a session with a third role asked for /dashboard.
C10_Witness ==
    /\ LastWas("GET", "dashboard")
    /\ last.before["role"] = sAdmin
    /\ last.target = "teacher_dashboard"

\* the relative paths of the leaves of one student record
RecordLeaves == {<<FieldSeg(f)>> : f \in PayloadFields}

\* a record as the subtree the store holds for it
AsTree(rec) ==
    [r \in RecordLeaves |->
        rec[CHOOSE f \in PayloadFields : r = <<FieldSeg(f)>>]]

\* the record a signed-in session s submits with form at time now
Submitted(s, form, now) ==
    [name |-> Strip(form.name),
     specialNeeds |-> Strip(form.details.specialNeeds),
     progress |-> Strip(form.details.progress),
     accommodations |-> Strip(form.details.accommodations),
     notes |-> Strip(form.details.notes),
     createdBy |-> s["uid"],
     lastUpdated |-> now]

\* the last request was a POST /add_student that wrote to the store
LastWrote == LastWas("POST", "add_student") /\ last.writes # {}

\* C11: after a POST /add_student has written, the node at the written
\* path is the submitted record in full: its seven fields with the values
\* of this request and nothing else, also when a record of an earlier
\* write was stored at that path.
C11_SecondWriteReplacesInFull ==
    LastWrote
    => \A p \in last.writes :
           \E now \in 1..(clock - 1) :
               Get(store, p) = AsTree(Submitted(last.before, last.input, now))

\* C11 witness: the write replaced a record that another user had created
\* with other field values at the same path.
C11_Witness ==
    /\ LastWrote
    /\ DOMAIN last.prior = RecordLeaves
    /\ last.prior[<<FieldSeg("createdBy")>>] # last.before["uid"]
    /\ last.prior[<<FieldSeg("notes")>>] # Strip(last.input.details.notes)

\* C12: when the store call of an add_student request completes, the node
\* at its path is that request's record in full, whatever other requests
\* to the same path are in flight or have completed: the record is always
\* the one written last, never a mix.
C12_LastWriterWinsInFull ==
    [][ \A r \in pending :
            r \notin pending'
            => Get(store', r.path) =
                   AsTree(Submitted(r.before, r.form,
                                    r.payload.lastUpdated)) ]_vars

\* C12 witness: two sessions had requests to the same path in flight at
\* the same time; the one that started later wrote first, and the one that
\* started earlier has now replaced its record.
C12_Witness ==
    /\ LastWrote
    /\ DOMAIN last.prior = RecordLeaves
    /\ last.prior[<<FieldSeg("createdBy")>>] # last.before["uid"]
    /\ \A p \in last.writes :
           last.prior[<<FieldSeg("lastUpdated")>>]
               > store[p \o <<FieldSeg("lastUpdated")>>]

\* C13: a request of one client leaves the session of every other client
\* as it was.
C13_OtherSessionsUntouched ==
    [][ \A c \in Clients :
            c # last'.client => session'[c] = session[c] ]_vars

\* C13 witness: two clients were signed in as the same user, one of them
\* has logged out and the other is still signed in.
C13_Witness ==
    /\ LastWas("GET", "logout")
    /\ last.client = "c1"
    /\ Truthy(last.before["uid"])
    /\ "c2" \in Clients
    /\ session["c2"] = last.before

\* C14: when a teacher session has added a student with name n and asks
\* for /teacher next, the page lists at key student_key_from_name(n) a
\* record with the submitted, trimmed fields and the teacher as createdBy.
C14_AddedStudentListed ==
    [][ ( /\ LastWrote
          /\ last.before["role"] = sTeacher
          /\ last'.method = "GET"
          /\ last'.route = "teacher"
          /\ last'.client = last.client
          /\ last'.before = last.before )
        => LET key == student_key_from_name(last.input.name)
               rec == Submitted(last.before, last.input, clock - 1)
           IN  /\ last'.kind = "render"
               /\ \A f \in PayloadFields \ {"lastUpdated"} :
                      /\ <<key, FieldSeg(f)>> \in DOMAIN last'.data
                      /\ last'.data[<<key, FieldSeg(f)>>] = rec[f] ]_vars

\* C15: the key derived from a name holds only letters, digits and "_";
\* deriving the key of a key gives the same key; "Jane Doe!" gives
\* "Jane_Doe_".
C15_KeyIdempotent ==
    /\ Len(keyOut) >= 1
       => /\ \A i \in 1..Len(keyOut[1]) :
                 IsAlnum(keyOut[1][i]) \/ keyOut[1][i] = "_"
          /\ keyIn = sJaneDoe
             => keyOut[1] = <<"J", "a", "n", "e", "_", "D", "o", "e", "_">>
    /\ Len(keyOut) = 2 => keyOut[2] = keyOut[1]

\* C15 witness: the key of a padded name with punctuation inside has been
\* derived twice.
C15_Witness ==
    /\ keyIn = <<" ", "!", "a">>
    /\ Len(keyOut) = 2

\* C16: a browser that starts at /dashboard, /teacher or /counselor and
\* follows the redirects never comes back to a route it has already been
\* sent to (the handlers depend on the session alone, so coming back means
\* going round forever).
C16_RedirectChainEnds ==
    \A i, j \in 1..Len(chain) : i < j => chain[i] # chain[j]

\* the path Classes/{class}/{section}/{key} of the student record a
\* POST /add_student of session s with form is about
RecordPath(s, form) ==
    <<sClasses,
      IF s["role"] = sTeacher THEN s["assignedClass"] ELSE Strip(form.class),
      IF s["role"] = sTeacher THEN s["assignedSection"]
      ELSE Strip(form.section),
      student_key_from_name(form.name)>>

\* C17: a POST /add_student changes nothing in the store outside the one
\* student record at Classes/{class}/{section}/{key}: every field of every
\* other student record (a leaf Classes/c/s/k/field) is there afterwards
\* with its value, also when the name is blank and the key empty.
C17_OtherRecordsUnchanged ==
    [][ ( /\ last'.method = "POST"
          /\ last'.route = "add_student"
          /\ LoginRequired(last'.before) )
        => \A q \in DOMAIN store :
               ( /\ Len(q) = 5
                 /\ ~IsPrefix(RecordPath(last'.before, last'.input), q) )
               => /\ q \in DOMAIN store'
                  /\ store'[q] = store[q] ]_vars

\* the sessions a successful sign-in of one account leaves behind
SignedInSessions ==
    { SessionFields(firebase_sign_in(a.email, a.password),
                    get_user_metadata(a.uid)) :
          a \in {x \in Accounts : x.uid \in DOMAIN UserDirectory} }

\* C18: every client's session is either empty or holds exactly the uid,
\* tokens, role and assignment that one successful sign-in stored, and
\* therefore the test of index() (idToken and uid) and the test of
\* login_required (uid) agree on it.
C18_SessionFromOneSignIn ==
    \A c \in Clients :
        /\ \/ session[c] = EmptySession
           \/ session[c] \in SignedInSessions
        /\ IndexSignedIn(session[c]) <=> LoginRequired(session[c])

\* C18 witness: a client that was signed in as the account without a role
\* has signed in as the teacher.
C18_Witness ==
    /\ LastWas("POST", "login")
    /\ last.target = "dashboard"
    /\ last.before["uid"] = uN
    /\ session[last.client]["uid"] = uT

\* the names of the student records stored in the section at sec
NamesStored(tree, sec) ==
    { tree[q] : q \in { r \in DOMAIN tree : /\ Len(r) = 5
                                             /\ IsPrefix(sec, r)
                                             /\ r[5] = FieldSeg("name") } }

\* C19: a POST /add_student whose trimmed name is not empty and differs
\* from the name of every student record stored in the target section
\* overwrites none of them: every field of every student record of that
\* section is there afterwards with its value.
C19_NewNameOverwritesNothing ==
    [][ LET s   == last'.before
            sec == SubSeq(RecordPath(s, last'.input), 1, 3)
        IN  ( /\ last'.method = "POST"
              /\ last'.route = "add_student"
              /\ LoginRequired(s)
              /\ Strip(last'.input.name) # <<>>
              /\ Strip(last'.input.name) \notin NamesStored(store, sec) )
            => \A q \in DOMAIN store :
                   ( Len(q) = 5 /\ IsPrefix(sec, q) )
                   => /\ q \in DOMAIN store'
                      /\ store'[q] = store[q] ]_vars

====
